---- MODULE Spec2Model ----
(***************************************************************************)
(* A model of three components of the repository:                          *)
(*   - libkbfs/node_cache.go: nodeCacheStandard, the reference-counted     *)
(*     cache of the nodes of a folder tree;                                *)
(*   - the block retrieval queue (blockRetrievalQueue): the coalescing     *)
(*     priority queue of block fetches and its hand-off to workers;        *)
(*   - go/service/log_register.go.                                         *)
(* The node cache is modelled twice: with every call atomic (Spec,         *)
(* SpecRef: sequences of calls) and with GetOrCreate and Forget as the     *)
(* steps they take around ncs.lock (SpecConc: concurrent calls).           *)
(***************************************************************************)
EXTENDS Integers, Sequences, FiniteSets, TLC

\* ------------------------------------------------------------------ bounds
MaxPtr == 3
MaxOldPathLen == 2
MaxOps == 4
NumProcs == 2
MaxCalls == 5
NumQPtrs == 3
MaxRequests == 3
NumWorkers == 2
NumFairPtrs == 2
NumSessions == 2
MaxLogCalls == 5

\* ------------------------------------------------------------- node cache
VARIABLES
  nodes,     \* ncs.nodes: BlockPointer -> [node, refCount] (a map: its domain is the keys)
  store,     \* the nodeStandard objects allocated so far, by identity 1..Len(store)
  held,      \* ghost: per node, the handles GetOrCreate returned and Forget has not released
  unlinked,  \* ghost: per node, the oldPath of the latest Unlink call on it (NoPath: none)
  origin,    \* ghost: per node, the ptr, name and parent GetOrCreate created it with
  ret,       \* the latest call and what it returned
  ops        \* ghost: the number of calls made so far

ncVars == <<nodes, store, held, unlinked, origin, ret, ops>>

\* The goroutines that call GetOrCreate and forget on the cache at the same time.
VARIABLES
  pc,        \* per goroutine: "idle", "inc" (in the fast path, ncs.lock read-locked,
             \*   entry.refCount loaded) or "slow" (past RUnlock, waiting for Lock)
  loc,       \* per goroutine: the arguments of its call and the refCount it loaded
  readers    \* the goroutines that hold ncs.lock for reading

ccVars == <<pc, loc, readers>>

Procs == 1..NumProcs

\* -------------------------------------------------- block retrieval queue
VARIABLES
  recs,            \* the blockRetrieval records created so far, by identity 1..Len(recs)
  ptrs,            \* brq.ptrs: BlockPointer -> record
  insertionCount,  \* brq.insertionCount
  heap,            \* brq.heap: the slice of records, in heap order
  workerQueue,     \* brq.workerQueue: the channels published by WorkOnRequest
  dWait,           \* the notifyWorker goroutines blocked in <-brq.workerQueue
  dHold,           \* the channels notifyWorker goroutines have received and not yet served
  panicked,        \* a notifyWorker goroutine popped from an empty heap
  wpc,             \* per worker: "idle", "waiting", "claimed", "finalized"
  wch,             \* per worker: what the channel of its WorkOnRequest call holds (0: nothing)
  wrec,            \* per worker: the record it received
  reqs,            \* the Request calls: arguments, the record joined, results received
  assigned,        \* ghost: the records popped for a worker, in the order of the pops
  fin,             \* ghost: the records whose worker has called FinalizeRequest
  done             \* ghost: the records whose worker has delivered the results

qVars == <<recs, ptrs, insertionCount, heap, workerQueue, dWait, dHold, panicked,
           wpc, wch, wrec, reqs, assigned, fin, done>>

QPtrs == 1..NumQPtrs
Priorities == {1, 2, 3, 5}
Workers == 1..NumWorkers

\* The log registers (one per session) and the log forwarder they share.
VARIABLES
  lqueue,      \* lqueue[s]: r.queue of session s's logRegister: a queue, 0 for nil
  forwarder,   \* the queues the forwarder holds
  logQueues,   \* the queues made by newLogQueue: logQueues[q] is queue q
  lret,        \* the last call on a log register and the error it returned
  lcalls       \* the number of calls so far

lgVars == <<lqueue, forwarder, logQueues, lret, lcalls>>

Sessions == 1..NumSessions
Levels == {1, 2}
ErrAlreadyRegistered == "logger already registered"

Ptrs == 1..MaxPtr
Names == {"a", "b"}
NoNode == 0
Allocated == 1..Len(store)

id == "tlf"
branch == "master"
ErrParentNotFound == "ParentNodeNotFoundError"

\* The zero value of path, which a node has as cachedPath until it is unlinked.
NoPath == [tlf |-> "", branch |-> "", path |-> <<>>]

\* The oldPaths handed to Unlink: the prefixes, the empty one included, of one
\* root-to-leaf path of MaxOldPathLen steps.
OldStep(i) == [BlockPointer |-> ((i - 1) % MaxPtr) + 1,
               Name |-> IF i % 2 = 1 THEN "a" ELSE "b"]
OldPaths ==
  {[tlf |-> id, branch |-> branch, path |-> [i \in 1..n |-> OldStep(i)]] :
     n \in 0..MaxOldPathLen}

MapDelete(m, k) == [x \in DOMAIN m \ {k} |-> m[x]]
MapPut(m, k, v) == [x \in DOMAIN m \cup {k} |-> IF x = k THEN v ELSE m[x]]

Reverse(s) == [i \in 1..Len(s) |-> s[Len(s) + 1 - i]]

\* What a call returned: the operation, its error ("": nil) and the pointer the
\* error carries.
Call(op, err, errPtr) == [op |-> op, err |-> err, errPtr |-> errPtr]

\* newNodeStandard(ptr, name, parent, ncs): the node GetOrCreate constructs.
NewNodeStandard(ptr, name, parent) ==
  [ptr |-> ptr, name |-> name, parent |-> parent, cachedPath |-> NoPath]

\* forgetLocked without the delete at zero (a mutant of ForgetLocked).
ForgetLockedKeepsEntry(ns, st, node) ==
  LET ptr == st[node].ptr IN
  IF ptr \notin DOMAIN ns THEN ns
  ELSE IF ns[ptr].node # node THEN ns
  ELSE [ns EXCEPT ![ptr].refCount = @ - 1]

\* forgetLocked that also drops one reference of the node's parent (a mutant of
\* ForgetLocked).
ForgetLockedCascades(ns, st, node) ==
  LET ptr == st[node].ptr IN
  IF ptr \notin DOMAIN ns THEN ns
  ELSE IF ns[ptr].node # node THEN ns
  ELSE LET c == ns[ptr].refCount - 1
           own == IF c <= 0 THEN MapDelete(ns, ptr) ELSE [ns EXCEPT ![ptr].refCount = c]
           parent == st[node].parent
       IN IF parent # NoNode /\ st[parent].ptr \in DOMAIN own /\ st[parent].ptr # ptr
          THEN [own EXCEPT ![st[parent].ptr].refCount = @ - 1]
          ELSE own

\* forgetLocked: the map after forgetting `node`.
ForgetLocked(ns, st, node) ==
  LET ptr == st[node].ptr IN
  IF ptr \notin DOMAIN ns THEN ns
  ELSE IF ns[ptr].node # node THEN ns
  ELSE LET c == ns[ptr].refCount - 1 IN
       IF c <= 0 THEN MapDelete(ns, ptr)
       ELSE [ns EXCEPT ![ptr].refCount = c]

\* newChildForParentLocked: the error it returns and the map it leaves.
\* `parent` (the interface value) is compared with pNodeStandard, its own cast.
NewChildForParentLocked(ns, st, parent) ==
  IF parent = NoNode
  THEN [err |-> ErrParentNotFound, errPtr |-> 0, nodes |-> ns]
  ELSE LET pNodeStandard == parent
           ptr == st[pNodeStandard].ptr
       IN IF ptr \notin DOMAIN ns
          THEN [err |-> ErrParentNotFound, errPtr |-> ptr, nodes |-> ns]
          ELSE IF parent # pNodeStandard
          THEN [err |-> ErrParentNotFound, errPtr |-> ptr, nodes |-> ns]
          ELSE [err |-> "", errPtr |-> 0,
                nodes |-> [ns EXCEPT ![ptr].refCount = @ + 1]]

\* GetOrCreate, the whole call.
GetOrCreate(ptr, name, parent) ==
  IF ptr \in DOMAIN nodes
  THEN /\ nodes' = [nodes EXCEPT ![ptr].refCount = @ + 1]
       /\ held' = [held EXCEPT ![nodes[ptr].node] = @ + 1]
       /\ ret' = Call("GetOrCreate", "", 0)
       /\ UNCHANGED <<store, unlinked, origin>>
  ELSE LET r == IF parent # NoNode
                THEN NewChildForParentLocked(nodes, store, parent)
                ELSE [err |-> "", errPtr |-> 0, nodes |-> nodes]
       IN IF r.err # ""
          THEN /\ ret' = Call("GetOrCreate", r.err, r.errPtr)
               /\ UNCHANGED <<nodes, store, held, unlinked, origin>>
          ELSE /\ store' = Append(store, NewNodeStandard(ptr, name, parent))
               /\ nodes' = MapPut(r.nodes, ptr, [node |-> Len(store) + 1, refCount |-> 1])
               /\ held' = Append(held, 1)
               /\ unlinked' = Append(unlinked, NoPath)
               /\ origin' = Append(origin, [ptr |-> ptr, name |-> name, parent |-> parent])
               /\ ret' = Call("GetOrCreate", "", 0)

\* forget: a caller releases a handle it holds.
Forget(node) ==
  /\ held[node] > 0
  /\ nodes' = ForgetLocked(nodes, store, node)
  /\ held' = [held EXCEPT ![node] = @ - 1]
  /\ ret' = Call("Forget", "", 0)
  /\ UNCHANGED <<store, unlinked, origin>>

\* GetWithoutReference: the node it returns.
GetWithoutReference(ptr) ==
  IF ptr \notin DOMAIN nodes THEN NoNode ELSE nodes[ptr].node

\* UpdatePointer without delete(ncs.nodes, oldPtr) (a mutant of UpdatePointer).
UpdatePointerKeepsOld(oldPtr, newPtr) ==
  /\ ret' = Call("UpdatePointer", "", 0)
  /\ IF oldPtr \notin DOMAIN nodes
     THEN UNCHANGED <<nodes, store>>
     ELSE LET entry == nodes[oldPtr] IN
          /\ store' = [store EXCEPT ![entry.node].ptr = newPtr]
          /\ nodes' = MapPut(nodes, newPtr, entry)
  /\ UNCHANGED <<held, unlinked, origin>>

UpdatePointer(oldPtr, newPtr) ==
  /\ ret' = Call("UpdatePointer", "", 0)
  /\ IF oldPtr \notin DOMAIN nodes
     THEN UNCHANGED <<nodes, store>>
     ELSE LET entry == nodes[oldPtr] IN
          /\ store' = [store EXCEPT ![entry.node].ptr = newPtr]
          /\ nodes' = MapPut(MapDelete(nodes, oldPtr), newPtr, entry)
  /\ UNCHANGED <<held, unlinked, origin>>

\* Move that releases the old parent before it claims the new one (a mutant of Move).
MoveForgetsFirst(ptr, newParent, newName) ==
  IF ptr \notin DOMAIN nodes
  THEN /\ ret' = Call("Move", "", 0)
       /\ UNCHANGED <<nodes, store, held, unlinked, origin>>
  ELSE LET entry == nodes[ptr]
           oldParent == store[entry.node].parent
           forgot == IF oldParent # NoNode
                     THEN ForgetLocked(nodes, store, oldParent)
                     ELSE nodes
           r == NewChildForParentLocked(forgot, store, newParent)
       IN IF r.err # ""
          THEN /\ ret' = Call("Move", r.err, r.errPtr)
               /\ nodes' = forgot
               /\ UNCHANGED <<store, held, unlinked, origin>>
          ELSE /\ nodes' = r.nodes
               /\ store' = [store EXCEPT ![entry.node].parent = newParent,
                                         ![entry.node].name = newName]
               /\ ret' = Call("Move", "", 0)
               /\ UNCHANGED <<held, unlinked, origin>>

Move(ptr, newParent, newName) ==
  IF ptr \notin DOMAIN nodes
  THEN /\ ret' = Call("Move", "", 0)
       /\ UNCHANGED <<nodes, store, held, unlinked, origin>>
  ELSE LET entry == nodes[ptr]
           r == NewChildForParentLocked(nodes, store, newParent)
       IN IF r.err # ""
          THEN /\ ret' = Call("Move", r.err, r.errPtr)
               /\ UNCHANGED <<nodes, store, held, unlinked, origin>>
          ELSE LET oldParent == store[entry.node].parent IN
               /\ nodes' = IF oldParent # NoNode
                           THEN ForgetLocked(r.nodes, store, oldParent)
                           ELSE r.nodes
               /\ store' = [store EXCEPT ![entry.node].parent = newParent,
                                         ![entry.node].name = newName]
               /\ ret' = Call("Move", "", 0)
               /\ UNCHANGED <<held, unlinked, origin>>

Unlink(ptr, oldPath) ==
  /\ ret' = Call("Unlink", "", 0)
  /\ IF ptr \notin DOMAIN nodes
     THEN UNCHANGED <<nodes, store, unlinked>>
     ELSE LET entry == nodes[ptr]
              oldParent == store[entry.node].parent
          IN /\ nodes' = IF oldParent # NoNode
                         THEN ForgetLocked(nodes, store, oldParent)
                         ELSE nodes
             /\ store' = [store EXCEPT ![entry.node].cachedPath = oldPath,
                                       ![entry.node].parent = NoNode,
                                       ![entry.node].name = ""]
             /\ unlinked' = [unlinked EXCEPT ![entry.node] = oldPath]
  /\ UNCHANGED <<held, origin>>

\* PathFromNode appending the cached path forwards instead of backwards (a mutant
\* of Walk).
RECURSIVE WalkSpliceForward(_, _, _)
WalkSpliceForward(currNode, acc, fuel) ==
  IF currNode = NoNode
  THEN [ok |-> TRUE, p |-> [tlf |-> id, branch |-> branch, path |-> Reverse(acc)]]
  ELSE IF fuel = 0
  THEN [ok |-> FALSE, p |-> NoPath]
  ELSE LET ns == store[currNode] IN
       IF ns.parent = NoNode /\ Len(ns.cachedPath.path) > 0
       THEN IF Len(acc) = 0
            THEN [ok |-> TRUE, p |-> ns.cachedPath]
            ELSE [ok |-> TRUE,
                  p |-> [tlf |-> id, branch |-> branch,
                         path |-> Reverse(acc \o ns.cachedPath.path)]]
       ELSE WalkSpliceForward(ns.parent,
                 Append(acc, [BlockPointer |-> ns.ptr, Name |-> ns.name]),
                 fuel - 1)

\* PathFromNode without the final reversal (a mutant of Walk).
RECURSIVE WalkNoReverse(_, _, _)
WalkNoReverse(currNode, acc, fuel) ==
  IF currNode = NoNode
  THEN [ok |-> TRUE, p |-> [tlf |-> id, branch |-> branch, path |-> acc]]
  ELSE IF fuel = 0
  THEN [ok |-> FALSE, p |-> NoPath]
  ELSE LET ns == store[currNode] IN
       IF ns.parent = NoNode /\ Len(ns.cachedPath.path) > 0
       THEN IF Len(acc) = 0
            THEN [ok |-> TRUE, p |-> ns.cachedPath]
            ELSE [ok |-> TRUE,
                  p |-> [tlf |-> id, branch |-> branch,
                         path |-> acc \o Reverse(ns.cachedPath.path)]]
       ELSE WalkNoReverse(ns.parent,
                 Append(acc, [BlockPointer |-> ns.ptr, Name |-> ns.name]),
                 fuel - 1)

\* PathFromNode's loop from currNode with p.path = acc. The loop has no bound in the
\* code; here it gives up (ok = FALSE) after more iterations than there are nodes,
\* which happens exactly when the parent references form a cycle.
RECURSIVE Walk(_, _, _)
Walk(currNode, acc, fuel) ==
  IF currNode = NoNode
  THEN [ok |-> TRUE, p |-> [tlf |-> id, branch |-> branch, path |-> Reverse(acc)]]
  ELSE IF fuel = 0
  THEN [ok |-> FALSE, p |-> NoPath]
  ELSE LET ns == store[currNode] IN
       IF ns.parent = NoNode /\ Len(ns.cachedPath.path) > 0
       THEN IF Len(acc) = 0
            THEN [ok |-> TRUE, p |-> ns.cachedPath]
            ELSE [ok |-> TRUE,
                  p |-> [tlf |-> id, branch |-> branch,
                         path |-> Reverse(acc \o Reverse(ns.cachedPath.path))]]
       ELSE Walk(ns.parent,
                 Append(acc, [BlockPointer |-> ns.ptr, Name |-> ns.name]),
                 fuel - 1)

PathFromNode(node) == Walk(node, <<>>, Len(store) + 1).p

NcInit ==
  /\ nodes = <<>>
  /\ store = <<>>
  /\ held = <<>>
  /\ unlinked = <<>>
  /\ origin = <<>>
  /\ ret = Call("", "", 0)
  /\ ops = 0

NoLoc == [ptr |-> 0, name |-> "", parent |-> NoNode, tmp |-> 0]

CcInit ==
  /\ pc = [p \in Procs |-> "idle"]
  /\ loc = [p \in Procs |-> NoLoc]
  /\ readers = {}

QInit ==
  /\ recs = <<>>
  /\ ptrs = <<>>
  /\ insertionCount = 0
  /\ heap = <<>>
  /\ workerQueue = <<>>
  /\ dWait = 0
  /\ dHold = {}
  /\ panicked = FALSE
  /\ wpc = [w \in Workers |-> "idle"]
  /\ wch = [w \in Workers |-> 0]
  /\ wrec = [w \in Workers |-> 0]
  /\ reqs = <<>>
  /\ assigned = <<>>
  /\ fin = {}
  /\ done = {}

LgInit ==
  /\ lqueue = [s \in Sessions |-> 0]
  /\ forwarder = {}
  /\ logQueues = <<>>
  /\ lret = [op |-> "", session |-> 0, err |-> ""]
  /\ lcalls = 0

Init == NcInit /\ CcInit /\ QInit /\ LgInit

\* One more call, while the run has calls left; no other call is in progress.
Count ==
  /\ ops < MaxOps
  /\ ops' = ops + 1
  /\ UNCHANGED <<ccVars, qVars, lgVars>>

DoGetOrCreate ==
  /\ Count
  /\ \E ptr \in Ptrs, name \in Names, parent \in {NoNode} \cup Allocated :
        GetOrCreate(ptr, name, parent)
DoForget ==
  /\ Count
  /\ \E node \in Allocated : Forget(node)
DoUpdatePointer ==
  /\ Count
  /\ \E oldPtr \in Ptrs, newPtr \in Ptrs : UpdatePointer(oldPtr, newPtr)
DoMove ==
  /\ Count
  /\ \E ptr \in Ptrs, newParent \in {NoNode} \cup Allocated, newName \in Names :
        Move(ptr, newParent, newName)
DoUnlink ==
  /\ Count
  /\ \E ptr \in Ptrs, oldPath \in OldPaths : Unlink(ptr, oldPath)

\* Sequences of calls on one cache, each call atomic (every call but the fast path
\* of GetOrCreate holds ncs.lock from its first statement to its last).
Next == DoGetOrCreate \/ DoForget \/ DoUpdatePointer \/ DoMove \/ DoUnlink

vars == <<ncVars, ccVars, qVars, lgVars>>

Spec == Init /\ [][Next]_vars

\* Sequences of GetOrCreate without parent and Forget alone.
DoGetOrCreateNoParent ==
  /\ Count
  /\ \E ptr \in Ptrs, name \in Names : GetOrCreate(ptr, name, NoNode)

RefNext == DoGetOrCreateNoParent \/ DoForget

SpecRef == Init /\ [][RefNext]_vars

\* ------------------------------------------- node cache: concurrent calls
\* GetOrCreate, lines 81-88: RLock and the lookup. On a hit the goroutine has loaded
\* entry.refCount for the increment and still holds the read lock; on a miss it
\* has released it and goes on to Lock. (A writer holds the lock only within one
\* step, so RLock never waits here.)
CcGetOrCreateStart(p, ptr, name, parent) ==
  /\ pc[p] = "idle"
  /\ ops < MaxCalls
  /\ ops' = ops + 1
  /\ IF ptr \in DOMAIN nodes
     THEN /\ pc' = [pc EXCEPT ![p] = "inc"]
          /\ loc' = [loc EXCEPT ![p] = [ptr |-> ptr, name |-> name, parent |-> parent,
                                        tmp |-> nodes[ptr].refCount]]
          /\ readers' = readers \cup {p}
     ELSE /\ pc' = [pc EXCEPT ![p] = "slow"]
          /\ loc' = [loc EXCEPT ![p] = [ptr |-> ptr, name |-> name, parent |-> parent,
                                        tmp |-> 0]]
          /\ UNCHANGED readers
  /\ UNCHANGED <<nodes, store, held, unlinked, origin, ret, qVars, lgVars>>

\* GetOrCreate, lines 84-86: the store of entry.refCount++ (the loaded value plus
\* one), RUnlock, and the return of entry.node. The increment is a plain load and
\* store under the read lock, which other readers hold at the same time.
CcGetOrCreateInc(p) ==
  /\ pc[p] = "inc"
  /\ nodes' = [nodes EXCEPT ![loc[p].ptr].refCount = loc[p].tmp + 1]
  /\ held' = [held EXCEPT ![nodes[loc[p].ptr].node] = @ + 1]
  /\ ret' = Call("GetOrCreate", "", 0)
  /\ readers' = readers \ {p}
  /\ pc' = [pc EXCEPT ![p] = "idle"]
  /\ loc' = [loc EXCEPT ![p] = NoLoc]
  /\ UNCHANGED <<store, unlinked, origin, ops, qVars, lgVars>>

\* GetOrCreate, lines 90-112: Lock (no reader holds the lock), the second lookup and
\* the rest of the call, Unlock.
CcGetOrCreateSlow(p) ==
  /\ pc[p] = "slow"
  /\ readers = {}
  /\ GetOrCreate(loc[p].ptr, loc[p].name, loc[p].parent)
  /\ pc' = [pc EXCEPT ![p] = "idle"]
  /\ loc' = [loc EXCEPT ![p] = NoLoc]
  /\ UNCHANGED <<readers, ops, qVars, lgVars>>

\* forget, lines 53-57: Lock (no reader holds the lock), forgetLocked, Unlock.
CcForget(p, node) ==
  /\ pc[p] = "idle"
  /\ ops < MaxCalls
  /\ ops' = ops + 1
  /\ readers = {}
  /\ Forget(node)
  /\ UNCHANGED <<ccVars, qVars, lgVars>>

DoCcGetOrCreateStart ==
  \E p \in Procs, ptr \in Ptrs, name \in Names, parent \in {NoNode} \cup Allocated :
     CcGetOrCreateStart(p, ptr, name, parent)
DoCcGetOrCreateInc == \E p \in Procs : CcGetOrCreateInc(p)
DoCcGetOrCreateSlow == \E p \in Procs : CcGetOrCreateSlow(p)
DoCcForget == \E p \in Procs, node \in Allocated : CcForget(p, node)

ConcNext ==
  DoCcGetOrCreateStart \/ DoCcGetOrCreateInc \/ DoCcGetOrCreateSlow \/ DoCcForget

SpecConc == Init /\ [][ConcNext]_vars

\* ------------------------------------- block retrieval queue: operations
\* Go's integer division, which truncates toward zero.
GoDiv(a, b) == IF a >= 0 THEN a \div b ELSE -((-a) \div b)

\* The heap as container/heap sees it: hs.h is the slice *brq.heap (hs.h[i + 1] is
\* element i) and hs.rs the records, whose index field Swap, Push and Pop maintain.

\* blockRetrievalHeap.Less(i, j): higher priority first, then lower insertionOrder.
Less(hs, i, j) ==
  LET reqI == hs.rs[hs.h[i + 1]]
      reqJ == hs.rs[hs.h[j + 1]]
  IN IF reqI.priority > reqJ.priority THEN TRUE
     ELSE IF reqI.priority < reqJ.priority THEN FALSE
     ELSE reqI.insertionOrder < reqJ.insertionOrder

\* blockRetrievalHeap.Swap(i, j): swaps the elements and updates their index fields.
Swap(hs, i, j) ==
  LET h2 == [hs.h EXCEPT ![i + 1] = hs.h[j + 1], ![j + 1] = hs.h[i + 1]]
  IN [h |-> h2,
      rs |-> [r \in 1..Len(hs.rs) |->
                IF r = h2[i + 1] THEN [hs.rs[r] EXCEPT !.index = i]
                ELSE IF r = h2[j + 1] THEN [hs.rs[r] EXCEPT !.index = j]
                ELSE hs.rs[r]]]

\* container/heap.up(h, j)
RECURSIVE Up(_, _)
Up(hs, j) ==
  LET i == GoDiv(j - 1, 2) IN
  IF i = j \/ ~Less(hs, j, i) THEN hs
  ELSE Up(Swap(hs, i, j), i)

\* container/heap.down(h, i0, n): the heap and the index the element ends at (down's
\* result is whether that index is greater than i0).
RECURSIVE Down(_, _, _)
Down(hs, i, n) ==
  LET j1 == 2 * i + 1 IN
  IF j1 >= n \/ j1 < 0 THEN [hs |-> hs, i |-> i]
  ELSE LET j2 == j1 + 1
           j == IF j2 < n /\ Less(hs, j2, j1) THEN j2 ELSE j1
       IN IF ~Less(hs, j, i) THEN [hs |-> hs, i |-> i]
          ELSE Down(Swap(hs, i, j), j, n)

\* heap.Push(brq.heap, br): blockRetrievalHeap.Push sets br.index and appends br,
\* then up from the last element.
HeapPush(hs, br) ==
  Up([h |-> Append(hs.h, br),
      rs |-> [hs.rs EXCEPT ![br].index = Len(hs.h)]],
     Len(hs.h))

\* heap.Pop(brq.heap): swap the first and the last element, down from the first,
\* then blockRetrievalHeap.Pop removes the last element and sets its index to -1.
HeapPop(hs) ==
  LET n == Len(hs.h) - 1
      d == Down(Swap(hs, 0, n), 0, n).hs
      x == d.h[n + 1]
  IN [hs |-> [h |-> SubSeq(d.h, 1, n), rs |-> [d.rs EXCEPT ![x].index = -1]],
      x |-> x]

\* heap.Fix(brq.heap, i)
HeapFix(hs, i) ==
  LET d == Down(hs, i, Len(hs.h)) IN
  IF d.i > i THEN d.hs ELSE Up(hs, i)

\* Request, lines 82-85, without heap.Fix (a mutant of Raise).
RaiseNoFix(hs, br, priority) ==
  IF priority > hs.rs[br].priority
  THEN [hs EXCEPT !.rs[br].priority = priority]
  ELSE hs

\* Request, lines 82-85, taking the latest priority whatever it is (a mutant of
\* Raise).
RaiseAlways(hs, br, priority) ==
  HeapFix([hs EXCEPT !.rs[br].priority = priority], hs.rs[br].index)

\* Request, lines 81-85: a higher priority is taken over and the heap fixed at the
\* record's index.
Raise(hs, br, priority) ==
  IF priority > hs.rs[br].priority
  THEN HeapFix([hs EXCEPT !.rs[br].priority = priority], hs.rs[br].index)
  ELSE hs

\* The Request calls that have been made and wait for brq.mtx.
Pending == {i \in 1..Len(reqs) : reqs[i].rec = 0}

\* The FinalizeRequest(ptr) calls so far.
Finalized(ptr) == Cardinality({r \in fin : recs[r].blockPtr = ptr})

\* notifyWorker has run and the process has not crashed.
Running == ~panicked

\* Request(ctx, priority, ptr, block) is called: the caller is at brq.mtx.Lock().
RequestCall(ptr, priority) ==
  /\ Running
  /\ Len(reqs) < MaxRequests
  \* pointers are opaque map keys: they are numbered in the order of their first use
  /\ \A q \in 1..(ptr - 1) : \E k \in 1..Len(reqs) : reqs[k].ptr = q
  /\ reqs' = Append(reqs, [ptr |-> ptr, priority |-> priority, rec |-> 0, got |-> 0,
                           seen |-> {}, fins |-> 0])
  /\ UNCHANGED <<recs, ptrs, insertionCount, heap, workerQueue, dWait, dHold, panicked,
                 wpc, wch, wrec, assigned, fin, done>>

\* Request that, for a new record, receives from brq.workerQueue itself instead of
\* leaving that to the goroutine of notifyWorker (a mutant of Request).
RequestWaitsForWorker(i) ==
  LET ptr == reqs[i].ptr
      priority == reqs[i].priority
      exists == ptr \in DOMAIN ptrs
      br == IF exists THEN ptrs[ptr] ELSE Len(recs) + 1
      new == [blockPtr |-> ptr, index |-> -1, priority |-> priority,
              insertionOrder |-> insertionCount, requests |-> <<>>]
      hs1 == IF exists THEN [h |-> heap, rs |-> recs]
             ELSE HeapPush([h |-> heap, rs |-> Append(recs, new)], br)
      hs2 == [hs1 EXCEPT !.rs[br].requests = Append(@, i)]
      hs3 == Raise(hs2, br, priority)
  IN /\ Running
     /\ reqs[i].rec = 0
     /\ exists \/ workerQueue # <<>>
     /\ recs' = hs3.rs
     /\ heap' = hs3.h
     /\ ptrs' = IF exists THEN ptrs ELSE MapPut(ptrs, ptr, br)
     /\ insertionCount' = IF exists THEN insertionCount ELSE insertionCount + 1
     /\ dHold' = IF exists THEN dHold ELSE dHold \cup {Head(workerQueue)}
     /\ workerQueue' = IF exists THEN workerQueue ELSE Tail(workerQueue)
     /\ reqs' = [reqs EXCEPT ![i].rec = br,
                             ![i].seen = Pending \ {i},
                             ![i].fins = Finalized(ptr)]
     /\ UNCHANGED <<dWait, panicked, wpc, wch, wrec, assigned, fin, done>>

\* Request that calls notifyWorker for every call, not only when it creates a record
\* (a mutant of Request).
RequestNotifiesAlways(i) ==
  LET ptr == reqs[i].ptr
      priority == reqs[i].priority
      exists == ptr \in DOMAIN ptrs
      br == IF exists THEN ptrs[ptr] ELSE Len(recs) + 1
      new == [blockPtr |-> ptr, index |-> -1, priority |-> priority,
              insertionOrder |-> insertionCount, requests |-> <<>>]
      hs1 == IF exists THEN [h |-> heap, rs |-> recs]
             ELSE HeapPush([h |-> heap, rs |-> Append(recs, new)], br)
      hs2 == [hs1 EXCEPT !.rs[br].requests = Append(@, i)]
      hs3 == Raise(hs2, br, priority)
  IN /\ Running
     /\ reqs[i].rec = 0
     /\ recs' = hs3.rs
     /\ heap' = hs3.h
     /\ ptrs' = IF exists THEN ptrs ELSE MapPut(ptrs, ptr, br)
     /\ insertionCount' = IF exists THEN insertionCount ELSE insertionCount + 1
     /\ dWait' = dWait + 1
     /\ reqs' = [reqs EXCEPT ![i].rec = br,
                             ![i].seen = Pending \ {i},
                             ![i].fins = Finalized(ptr)]
     /\ UNCHANGED <<workerQueue, dHold, panicked, wpc, wch, wrec, assigned, fin, done>>

\* Request that does not advance brq.insertionCount at line 74 (a mutant of
\* Request).
RequestSameOrder(i) ==
  LET ptr == reqs[i].ptr
      priority == reqs[i].priority
      exists == ptr \in DOMAIN ptrs
      br == IF exists THEN ptrs[ptr] ELSE Len(recs) + 1
      new == [blockPtr |-> ptr, index |-> -1, priority |-> priority,
              insertionOrder |-> insertionCount, requests |-> <<>>]
      hs1 == IF exists THEN [h |-> heap, rs |-> recs]
             ELSE HeapPush([h |-> heap, rs |-> Append(recs, new)], br)
      hs2 == [hs1 EXCEPT !.rs[br].requests = Append(@, i)]
      hs3 == Raise(hs2, br, priority)
  IN /\ Running
     /\ reqs[i].rec = 0
     /\ recs' = hs3.rs
     /\ heap' = hs3.h
     /\ ptrs' = IF exists THEN ptrs ELSE MapPut(ptrs, ptr, br)
     /\ insertionCount' = insertionCount
     /\ dWait' = IF exists THEN dWait ELSE dWait + 1
     /\ reqs' = [reqs EXCEPT ![i].rec = br,
                             ![i].seen = Pending \ {i},
                             ![i].fins = Finalized(ptr)]
     /\ UNCHANGED <<workerQueue, dHold, panicked, wpc, wch, wrec, assigned, fin, done>>

\* Request, lines 61-87, for call i: the whole body runs with brq.mtx held. The
\* deferred notifyWorker starts one more goroutine (dWait) when a record was created.
Request(i) ==
  LET ptr == reqs[i].ptr
      priority == reqs[i].priority
      exists == ptr \in DOMAIN ptrs
      br == IF exists THEN ptrs[ptr] ELSE Len(recs) + 1
      new == [blockPtr |-> ptr, index |-> -1, priority |-> priority,
              insertionOrder |-> insertionCount, requests |-> <<>>]
      hs1 == IF exists THEN [h |-> heap, rs |-> recs]
             ELSE HeapPush([h |-> heap, rs |-> Append(recs, new)], br)
      hs2 == [hs1 EXCEPT !.rs[br].requests = Append(@, i)]
      hs3 == Raise(hs2, br, priority)
  IN /\ Running
     /\ reqs[i].rec = 0
     /\ recs' = hs3.rs
     /\ heap' = hs3.h
     /\ ptrs' = IF exists THEN ptrs ELSE MapPut(ptrs, ptr, br)
     /\ insertionCount' = IF exists THEN insertionCount ELSE insertionCount + 1
     /\ dWait' = IF exists THEN dWait ELSE dWait + 1
     /\ reqs' = [reqs EXCEPT ![i].rec = br,
                             ![i].seen = Pending \ {i},
                             ![i].fins = Finalized(ptr)]
     /\ UNCHANGED <<workerQueue, dHold, panicked, wpc, wch, wrec, assigned, fin, done>>

\* WorkOnRequest: a worker publishes a new channel on brq.workerQueue (which holds
\* numWorkers channels) and goes on to receive from it.
WorkOnRequest(w) ==
  /\ Running
  /\ wpc[w] = "idle"
  /\ Len(workerQueue) < NumWorkers
  /\ workerQueue' = Append(workerQueue, w)
  /\ wpc' = [wpc EXCEPT ![w] = "waiting"]
  /\ UNCHANGED <<recs, ptrs, insertionCount, heap, dWait, dHold, panicked, wch, wrec,
                 reqs, assigned, fin, done>>

\* notifyWorker, line 51: a goroutine receives the next worker's channel.
NotifyWorkerTake ==
  /\ Running
  /\ dWait > 0
  /\ workerQueue # <<>>
  /\ dWait' = dWait - 1
  /\ dHold' = dHold \cup {Head(workerQueue)}
  /\ workerQueue' = Tail(workerQueue)
  /\ UNCHANGED <<recs, ptrs, insertionCount, heap, panicked, wpc, wch, wrec, reqs,
                 assigned, fin, done>>

\* notifyWorker that sends the first record of the heap and leaves it in the heap
\* (a mutant of NotifyWorkerPop).
NotifyWorkerPopPeeks(ch) ==
  /\ Running
  /\ ch \in dHold
  /\ dHold' = dHold \ {ch}
  /\ heap # <<>>
  /\ wch' = [wch EXCEPT ![ch] = heap[1]]
  /\ assigned' = Append(assigned, heap[1])
  /\ UNCHANGED <<recs, heap, ptrs, insertionCount, workerQueue, dWait, wpc, wrec, reqs,
                 fin, done, panicked>>

\* notifyWorker that pops the heap and sends nothing to the worker (a mutant of
\* NotifyWorkerPop).
NotifyWorkerPopDrops(ch) ==
  /\ Running
  /\ ch \in dHold
  /\ dHold' = dHold \ {ch}
  /\ heap # <<>>
  /\ LET r == HeapPop([h |-> heap, rs |-> recs]) IN
       /\ recs' = r.hs.rs
       /\ heap' = r.hs.h
       /\ assigned' = Append(assigned, r.x)
  /\ UNCHANGED <<ptrs, insertionCount, workerQueue, dWait, wpc, wch, wrec, reqs, fin,
                 done, panicked>>

\* notifyWorker, lines 53-56: with brq.mtx held, pop the heap and send the record on
\* the channel (which has room for it). heap.Pop on an empty heap panics.
NotifyWorkerPop(ch) ==
  /\ Running
  /\ ch \in dHold
  /\ dHold' = dHold \ {ch}
  /\ IF heap = <<>>
     THEN /\ panicked' = TRUE
          /\ UNCHANGED <<recs, heap, wch, assigned>>
     ELSE LET r == HeapPop([h |-> heap, rs |-> recs]) IN
          /\ recs' = r.hs.rs
          /\ heap' = r.hs.h
          /\ wch' = [wch EXCEPT ![ch] = r.x]
          /\ assigned' = Append(assigned, r.x)
          /\ UNCHANGED panicked
  /\ UNCHANGED <<ptrs, insertionCount, workerQueue, dWait, wpc, wrec, reqs, fin, done>>

\* The worker receives the record from the channel WorkOnRequest returned.
WorkerReceive(w) ==
  /\ Running
  /\ wpc[w] = "waiting"
  /\ wch[w] # 0
  /\ wrec' = [wrec EXCEPT ![w] = wch[w]]
  /\ wch' = [wch EXCEPT ![w] = 0]
  /\ wpc' = [wpc EXCEPT ![w] = "claimed"]
  /\ UNCHANGED <<recs, ptrs, insertionCount, heap, workerQueue, dWait, dHold, panicked,
                 reqs, assigned, fin, done>>

\* FinalizeRequest without the delete (a mutant of FinalizeRequest).
FinalizeRequestKeeps(w) ==
  /\ Running
  /\ wpc[w] = "claimed"
  /\ wpc' = [wpc EXCEPT ![w] = "finalized"]
  /\ fin' = fin \cup {wrec[w]}
  /\ UNCHANGED <<recs, ptrs, insertionCount, heap, workerQueue, dWait, dHold, panicked,
                 wch, wrec, reqs, assigned, done>>

\* FinalizeRequest(ptr), called by the worker for the record it received.
FinalizeRequest(w) ==
  /\ Running
  /\ wpc[w] = "claimed"
  /\ ptrs' = MapDelete(ptrs, recs[wrec[w]].blockPtr)
  /\ wpc' = [wpc EXCEPT ![w] = "finalized"]
  /\ fin' = fin \cup {wrec[w]}
  /\ UNCHANGED <<recs, insertionCount, heap, workerQueue, dWait, dHold, panicked,
                 wch, wrec, reqs, assigned, done>>

\* The worker sends the result of its fetch on the doneCh of every request of the
\* record, and is free for its next WorkOnRequest.
WorkerDeliver(w) ==
  /\ Running
  /\ wpc[w] = "finalized"
  /\ reqs' = [i \in 1..Len(reqs) |->
                IF \E k \in 1..Len(recs[wrec[w]].requests) : recs[wrec[w]].requests[k] = i
                THEN [reqs[i] EXCEPT !.got = @ + 1]
                ELSE reqs[i]]
  /\ done' = done \cup {wrec[w]}
  /\ wpc' = [wpc EXCEPT ![w] = "idle"]
  /\ wrec' = [wrec EXCEPT ![w] = 0]
  /\ UNCHANGED <<recs, ptrs, insertionCount, heap, workerQueue, dWait, dHold, panicked,
                 wch, assigned, fin>>

DoRequestCall ==
  /\ \E ptr \in QPtrs, priority \in Priorities : RequestCall(ptr, priority)
  /\ UNCHANGED <<ncVars, ccVars, lgVars>>
DoRequest ==
  /\ \E i \in 1..Len(reqs) : Request(i)
  /\ UNCHANGED <<ncVars, ccVars, lgVars>>
DoWorkOnRequest ==
  /\ \E w \in Workers : WorkOnRequest(w)
  /\ UNCHANGED <<ncVars, ccVars, lgVars>>
DoNotifyWorkerTake ==
  /\ NotifyWorkerTake
  /\ UNCHANGED <<ncVars, ccVars, lgVars>>
DoNotifyWorkerPop ==
  /\ \E ch \in Workers : NotifyWorkerPop(ch)
  /\ UNCHANGED <<ncVars, ccVars, lgVars>>
DoWorkerReceive ==
  /\ \E w \in Workers : WorkerReceive(w)
  /\ UNCHANGED <<ncVars, ccVars, lgVars>>
DoFinalizeRequest ==
  /\ \E w \in Workers : FinalizeRequest(w)
  /\ UNCHANGED <<ncVars, ccVars, lgVars>>
DoWorkerDeliver ==
  /\ \E w \in Workers : WorkerDeliver(w)
  /\ UNCHANGED <<ncVars, ccVars, lgVars>>

QueueNext ==
  \/ DoRequestCall \/ DoRequest \/ DoWorkOnRequest \/ DoNotifyWorkerTake
  \/ DoNotifyWorkerPop \/ DoWorkerReceive \/ DoFinalizeRequest \/ DoWorkerDeliver

SpecQueue == Init /\ [][QueueNext]_vars

\* --------------------------------------------------- node cache: properties

\* The handles outstanding on pointer ptr: the GetOrCreate calls that returned a node
\* of that pointer, less the Forget calls on such a node.
RECURSIVE HandlesOn(_, _)
HandlesOn(ptr, k) ==
  IF k = 0 THEN 0
  ELSE HandlesOn(ptr, k - 1) + (IF store[k].ptr = ptr THEN held[k] ELSE 0)

\* The handle is the node the cache holds for the handle's pointer.
Registered(node) ==
  /\ store[node].ptr \in DOMAIN nodes
  /\ nodes[store[node].ptr].node = node

\* C1: under GetOrCreate (no parent) and Forget of outstanding handles alone, a
\* pointer has an entry exactly when its GetOrCreate calls outnumber its Forget
\* calls, the entry's reference count is that difference, and with as many
\* Forgets as GetOrCreates the entry is absent.
C1_RefCountIsNetCalls ==
  \A ptr \in Ptrs :
    LET net == HandlesOn(ptr, Len(store)) IN
    /\ (ptr \in DOMAIN nodes) <=> (net > 0)
    /\ (ptr \in DOMAIN nodes) => nodes[ptr].refCount = net

\* Two GetOrCreate calls and two Forget calls on one pointer have been made, and the
\* entry is gone.
C1_Witness ==
  /\ ops = 4
  /\ ret.op = "Forget"
  /\ Len(store) = 1
  /\ held[1] = 0
  /\ store[1].ptr \notin DOMAIN nodes

\* C2: under every interleaving of concurrent GetOrCreate and Forget calls, every
\* handle GetOrCreate returned and Forget has not released has an entry, for its own
\* node, with a reference count of at least 1.
C2_OutstandingHandlesHaveEntries ==
  \A node \in Allocated :
    held[node] > 0 => (Registered(node) /\ nodes[store[node].ptr].refCount >= 1)

\* A parent handle that is not the node the cache holds for the handle's pointer.
StaleHandle(parent) == parent # NoNode /\ ~Registered(parent)

\* C3: GetOrCreate of an uncached ptr, and Move of a cached ptr, with a stale parent
\* handle fail with ParentNotFound and change no entry and no reference count.
C3_StaleParentFails ==
  [][\A ptr \in Ptrs, name \in Names, parent \in Allocated :
       ( /\ StaleHandle(parent)
         /\ \/ ptr \notin DOMAIN nodes /\ GetOrCreate(ptr, name, parent)
            \/ ptr \in DOMAIN nodes /\ Move(ptr, parent, name) )
       => ( /\ ret'.err = ErrParentNotFound
            /\ nodes' = nodes )]_vars

\* C4: a Move that returns ParentNotFound leaves every entry, every reference count
\* and every node's parent and name as they were.
C4_MoveAtomicOnFailure ==
  [][(ret'.op = "Move" /\ ret'.err = ErrParentNotFound)
       => (nodes' = nodes /\ store' = store)]_vars

\* A Move has failed with ParentNotFound on a cache that holds a node with a parent.
C4_Witness ==
  /\ ret.op = "Move"
  /\ ret.err = ErrParentNotFound
  /\ \E n \in Allocated : Registered(n) /\ store[n].parent # NoNode

\* The nodes from node up to its root, leaf first; it stops after as many nodes as
\* there are when the parent references form a cycle.
RECURSIVE Ancestry(_, _)
Ancestry(node, fuel) ==
  IF node = NoNode \/ fuel = 0 THEN <<>>
  ELSE <<node>> \o Ancestry(store[node].parent, fuel - 1)

\* node lies below top through parent references.
AttachedBelow(node, top) ==
  /\ node # top
  /\ \E i \in 2..Len(Ancestry(node, Len(store))) : Ancestry(node, Len(store))[i] = top

\* The (pointer, name) steps from the child of top down to node, root to leaf.
StepsBelow(node, top) ==
  LET up == Ancestry(node, Len(store))
      k == CHOOSE i \in 2..Len(up) : up[i] = top /\ \A j \in 2..(i - 1) : up[j] # top
  IN [i \in 1..(k - 1) |->
        [BlockPointer |-> store[up[k - i]].ptr, Name |-> store[up[k - i]].name]]

\* What C5 expects of the node unlinked with oldPath and of the nodes below it.
UnlinkedPathServed(node) ==
  /\ PathFromNode(node) = unlinked[node]
  /\ \A d \in Allocated :
        AttachedBelow(d, node)
          => PathFromNode(d).path = unlinked[node].path \o StepsBelow(d, node)

\* PathFromNode on the node returns: the parent references above it form no cycle.
Terminates(node) == Walk(node, <<>>, Len(store) + 1).ok

\* C5 as stated (for the non-empty oldPaths, and where no Move has tied the parent
\* references into a cycle): after Unlink(ptr, oldPath) and whatever calls follow,
\* PathFromNode on the node still in the cache returns oldPath, and on a node below
\* it oldPath followed by the steps down to that node.
C5_UnlinkedPathAlways ==
  \A node \in Allocated :
    (Len(unlinked[node].path) > 0 /\ Registered(node) /\ Terminates(node))
      => UnlinkedPathServed(node)

\* C5 amended: the same, while no later Move has given the node a parent again.
C5_UnlinkedPathWhileDetached ==
  \A node \in Allocated :
    ( /\ Len(unlinked[node].path) > 0
      /\ Registered(node)
      /\ store[node].parent = NoNode ) => UnlinkedPathServed(node)

\* A node unlinked with a path of two steps is still cached and has a node attached
\* below it.
C5_Witness ==
  \E node \in Allocated, d \in Allocated :
    /\ Len(unlinked[node].path) = 2
    /\ Registered(node)
    /\ store[node].parent = NoNode
    /\ AttachedBelow(d, node)

\* The node is as GetOrCreate created it.
AsCreated(node) ==
  store[node] = NewNodeStandard(origin[node].ptr, origin[node].name, origin[node].parent)

\* The node and the nodes it was created under, up to one created without parent,
\* are all as created: a freshly created root-to-leaf chain ending in node.
RECURSIVE FreshChain(_)
FreshChain(node) ==
  /\ AsCreated(node)
  /\ origin[node].parent # NoNode => FreshChain(origin[node].parent)

\* The (pointer, name) pairs the nodes of the chain were created with, root first.
RECURSIVE ChainSteps(_)
ChainSteps(node) ==
  (IF origin[node].parent = NoNode THEN <<>> ELSE ChainSteps(origin[node].parent))
    \o <<[BlockPointer |-> origin[node].ptr, Name |-> origin[node].name]>>

\* C6: PathFromNode on the last node of a freshly created chain of N nodes returns
\* the N (pointer, name) pairs of the chain's nodes, root first.
C6_FreshChainPath ==
  \A node \in Allocated :
    FreshChain(node)
      => PathFromNode(node) = [tlf |-> id, branch |-> branch, path |-> ChainSteps(node)]

\* A chain of three nodes has been created root first.
C6_Witness ==
  \E node \in Allocated : FreshChain(node) /\ Len(ChainSteps(node)) = 3

\* What C7 expects of UpdatePointer(oldPtr, newPtr) on a cached oldPtr.
Rekeyed(oldPtr, newPtr) ==
  /\ GetWithoutReference(oldPtr)' = NoNode
  /\ GetWithoutReference(newPtr)' = nodes[oldPtr].node
  /\ store'[nodes[oldPtr].node].ptr = newPtr
  /\ nodes'[newPtr].refCount = nodes[oldPtr].refCount

\* C7 as stated: for every pair of pointers, oldPtr cached, UpdatePointer leaves no
\* node under oldPtr and the same node, with the same count, under newPtr.
C7_UpdatePointerAnyPair ==
  [][\A oldPtr \in Ptrs, newPtr \in Ptrs :
       (oldPtr \in DOMAIN nodes /\ UpdatePointer(oldPtr, newPtr))
         => Rekeyed(oldPtr, newPtr)]_vars

\* C7 amended: the same for every pair of distinct pointers.
C7_UpdatePointerDistinct ==
  [][\A oldPtr \in Ptrs, newPtr \in Ptrs :
       (oldPtr \in DOMAIN nodes /\ oldPtr # newPtr /\ UpdatePointer(oldPtr, newPtr))
         => Rekeyed(oldPtr, newPtr)]_vars

\* UpdatePointer has moved a node with two references to another pointer.
C7_Witness ==
  /\ ret.op = "UpdatePointer"
  /\ \E node \in Allocated :
        /\ Registered(node)
        /\ store[node].ptr # origin[node].ptr
        /\ nodes[store[node].ptr].refCount = 2

\* The queue under fair scheduling: a Request call that waits for brq.mtx gets it,
\* workers keep calling WorkOnRequest, a worker that has a record finalizes it and
\* then delivers, and the dispatcher goroutines run. Nothing obliges callers to make
\* further Request calls.
QueueFairness ==
  /\ \A i \in 1..MaxRequests :
       WF_vars(i <= Len(reqs) /\ Request(i) /\ UNCHANGED <<ncVars, ccVars, lgVars>>)
  /\ WF_vars(DoNotifyWorkerTake)
  /\ \A w \in Workers :
       /\ WF_vars(WorkOnRequest(w) /\ UNCHANGED <<ncVars, ccVars, lgVars>>)
       /\ WF_vars(NotifyWorkerPop(w) /\ UNCHANGED <<ncVars, ccVars, lgVars>>)
       /\ WF_vars(WorkerReceive(w) /\ UNCHANGED <<ncVars, ccVars, lgVars>>)
       /\ WF_vars(FinalizeRequest(w) /\ UNCHANGED <<ncVars, ccVars, lgVars>>)
       /\ WF_vars(WorkerDeliver(w) /\ UNCHANGED <<ncVars, ccVars, lgVars>>)

\* The latest record has been delivered and nothing refers to it any more: the
\* record and its requests (the latest calls) are dropped, so that their places and
\* the record's insertion number are used again by later calls. Less only compares
\* insertion numbers, and the dropped record had the highest.
Retire ==
  LET r == Len(recs)
      R == {i \in 1..Len(reqs) : reqs[i].rec = r}
      k == Len(reqs) - Cardinality(R)
  IN /\ Running
     /\ r >= 1
     /\ r \in done
     /\ R = (k + 1)..Len(reqs)
     /\ reqs' = [i \in 1..k |-> [reqs[i] EXCEPT !.seen = @ \ R]]
     /\ recs' = SubSeq(recs, 1, r - 1)
     /\ insertionCount' = insertionCount - 1
     /\ assigned' = SelectSeq(assigned, LAMBDA x : x # r)
     /\ fin' = fin \ {r}
     /\ done' = done \ {r}
     /\ UNCHANGED <<ptrs, heap, workerQueue, dWait, dHold, panicked, wpc, wch, wrec>>

DoRetire ==
  /\ Retire
  /\ UNCHANGED <<ncVars, ccVars, lgVars>>

\* Request calls for the first NumFairPtrs pointers: background fetches (priority 1)
\* of the first pointer, on-demand fetches (priority 5) of the others.
DoRequestCallFair ==
  /\ \E ptr \in 1..NumFairPtrs : RequestCall(ptr, IF ptr = 1 THEN 1 ELSE 5)
  /\ UNCHANGED <<ncVars, ccVars, lgVars>>

QueueFairNext ==
  \/ DoRequestCallFair \/ DoRequest \/ DoWorkOnRequest \/ DoNotifyWorkerTake
  \/ DoNotifyWorkerPop \/ DoWorkerReceive \/ DoFinalizeRequest \/ DoWorkerDeliver
  \/ DoRetire

SpecQueueFair == Init /\ [][QueueFairNext]_vars /\ QueueFairness

\* ------------------------------------------------ log register: operations
\* newLogQueue(arg.Name, arg.Level, ui): a new queue, distinct from every earlier one.
NewLogQueue(name, level, ui) == [name |-> name, level |-> level, ui |-> ui]

\* logFwd.Add and logFwd.Remove: the forwarder holds a set of queues.
FwdAdd(f, q) == f \cup {q}
FwdRemove(f, q) == f \ {q}

\* RegisterLogger, lines 26-36, on the log register of session s.
RegisterLogger(s, name, level) ==
  IF lqueue[s] # 0
  THEN /\ lret' = [op |-> "RegisterLogger", session |-> s, err |-> ErrAlreadyRegistered]
       /\ UNCHANGED <<lqueue, forwarder, logQueues>>
  ELSE /\ logQueues' = Append(logQueues, NewLogQueue(name, level, s))
       /\ lqueue' = [lqueue EXCEPT ![s] = Len(logQueues) + 1]
       /\ forwarder' = FwdAdd(forwarder, Len(logQueues) + 1)
       /\ lret' = [op |-> "RegisterLogger", session |-> s, err |-> ""]

\* UnregisterLogger, lines 38-45: removes the queue from the forwarder; r.queue keeps
\* its value.
UnregisterLogger(s) ==
  /\ lret' = [op |-> "UnregisterLogger", session |-> s, err |-> ""]
  /\ IF lqueue[s] = 0
     THEN UNCHANGED <<lqueue, forwarder, logQueues>>
     ELSE /\ forwarder' = FwdRemove(forwarder, lqueue[s])
          /\ UNCHANGED <<lqueue, logQueues>>

LogCount == lcalls < MaxLogCalls /\ lcalls' = lcalls + 1 /\ UNCHANGED <<ncVars, ccVars, qVars>>

DoRegisterLogger ==
  /\ LogCount
  /\ \E s \in Sessions, name \in Names, level \in Levels : RegisterLogger(s, name, level)
DoUnregisterLogger ==
  /\ LogCount
  /\ \E s \in Sessions : UnregisterLogger(s)

LogNext == DoRegisterLogger \/ DoUnregisterLogger

SpecLog == Init /\ [][LogNext]_vars

\* The cached nodes whose parent reference is `parent`.
LiveChildren(parent) ==
  {c \in Allocated : Registered(c) /\ store[c].parent = parent}

\* C15: after any sequence of GetOrCreate, Move, Unlink, Forget and UpdatePointer
\* calls, the count of a cached parent has been incremented once for each child that
\* references it and decremented once for each child that was forgotten, moved away
\* or unlinked: it equals the number of outstanding handles on the parent plus the
\* number of live children that reference it as parent.
C15_ParentCountIsHandlesPlusChildren ==
  \A parent \in Allocated :
    Registered(parent) =>
      nodes[store[parent].ptr].refCount = held[parent] + Cardinality(LiveChildren(parent))

C18_PathFromNodeTerminates ==
  \A node \in Allocated : Registered(node) => Terminates(node)

\* The nodes a lookup can return from map ns.
Reachable(ns) == {ns[q].node : q \in DOMAIN ns}

\* C20: UpdatePointer(old, new) never removes or replaces an entry other than the one
\* keyed by old: the cache has as many entries after the call as before it, also when
\* new already has an entry of its own, and every node that a lookup could return
\* before the call can still be returned by a lookup after it.
C20_UpdatePointerKeepsOtherEntries ==
  [][ \A oldPtr, newPtr \in Ptrs :
        UpdatePointer(oldPtr, newPtr) =>
          /\ Cardinality(DOMAIN nodes') = Cardinality(DOMAIN nodes)
          /\ Reachable(nodes) \subseteq Reachable(nodes')
          /\ \A q \in DOMAIN nodes \ {oldPtr} :
               q \in DOMAIN nodes' /\ nodes'[q] = nodes[q] ]_vars

\* ---------------------------------------- block retrieval queue: properties
\* The records the dispatcher has handed to a worker.
Assigned == {assigned[k] : k \in 1..Len(assigned)}

\* Calls i and j are two Request calls for one pointer with priorities 1 and 5, in
\* either order, and both have run.
OneAndFive(i, j) ==
  /\ i # j
  /\ reqs[i].rec # 0 /\ reqs[j].rec # 0
  /\ reqs[i].ptr = reqs[j].ptr
  /\ reqs[i].priority = 1 /\ reqs[j].priority = 5

\* The calls overlapped: one had been made and was waiting for brq.mtx when the
\* other's body ran.
Concurrent(i, j) == i \in reqs[j].seen \/ j \in reqs[i].seen

\* Calls i and j share one record of priority 5, which is handed to a worker at most
\* once, and once that worker has delivered, each of the two has one result.
Coalesced(i, j) ==
  /\ reqs[i].rec = reqs[j].rec
  /\ recs[reqs[i].rec].priority = 5
  /\ Cardinality({k \in 1..Len(assigned) : assigned[k] = reqs[i].rec}) <= 1
  /\ reqs[i].rec \in done => reqs[i].got = 1 /\ reqs[j].got = 1

\* C8 as stated: two concurrent Request calls for the same pointer with priorities 1
\* and 5, in either order, create exactly one record, its priority becomes 5, and
\* both requesters receive a result from the single fetch of the one worker that
\* claims the record.
C8_ConcurrentCoalesce ==
  \A i, j \in 1..Len(reqs) :
    OneAndFive(i, j) /\ Concurrent(i, j) => Coalesced(i, j)

\* C8 amended: the same, for two concurrent Request calls between whose bodies no
\* worker has called FinalizeRequest for the pointer.
C8_CoalesceUntilFinalize ==
  \A i, j \in 1..Len(reqs) :
    OneAndFive(i, j) /\ Concurrent(i, j) /\ reqs[i].fins = reqs[j].fins
      => Coalesced(i, j)

\* Two concurrent requests with priorities 1 and 5 have shared a record and the
\* worker has delivered its fetch to both.
C8_Witness ==
  \E i, j \in 1..Len(reqs) :
    /\ OneAndFive(i, j) /\ Concurrent(i, j) /\ reqs[i].fins = reqs[j].fins
    /\ reqs[i].rec \in done
    /\ reqs[i].got = 1 /\ reqs[j].got = 1

\* C9: whenever the dispatcher hands a record to a worker, that record has the
\* highest priority of all records in the heap at that moment, and among those of
\* equal priority the lowest insertion sequence number (so priorities 3, 1, 2 queued
\* in that order leave as 3, 2, 1, and equal priorities leave in insertion order).
C9_PopsBestRecord ==
  [][ assigned' # assigned =>
        LET x == assigned'[Len(assigned')] IN
        \A k \in 1..Len(heap) :
          \/ recs[x].priority > recs[heap[k]].priority
          \/ /\ recs[x].priority = recs[heap[k]].priority
             /\ recs[x].insertionOrder <= recs[heap[k]].insertionOrder ]_vars

\* Three requests for distinct pointers with priorities 3, 1, 2 were queued in that
\* order and have been assigned in the order 3, 2, 1.
C9_Witness ==
  /\ Len(recs) = 3
  /\ recs[1].priority = 3 /\ recs[2].priority = 1 /\ recs[3].priority = 2
  /\ \A r \in 1..3 : Len(recs[r].requests) = 1
  /\ assigned = <<1, 3, 2>>

\* The Request call i runs in this step.
Runs(i) == i \in 1..Len(reqs) /\ reqs[i].rec = 0 /\ reqs'[i].rec # 0

\* C10 as stated: from the moment the dispatcher has popped a record and assigned
\* it to a worker, no later Request appends a requester to it or changes its
\* priority or heap position; such a Request creates a fresh record.
C10_FrozenOnceAssigned ==
  [][ /\ \A r \in Assigned : recs'[r] = recs[r]
      /\ \A i \in 1..Len(reqs) : Runs(i) => reqs'[i].rec \notin Assigned ]_vars

\* C10 amended: from the moment the worker has called FinalizeRequest for a record's
\* pointer, no later Request appends a requester to it or changes its priority or
\* heap position; such a Request creates a fresh record.
C10_FrozenOnceFinalized ==
  [][ /\ \A r \in fin : recs'[r] = recs[r]
      /\ \A i \in 1..Len(reqs) : Runs(i) => reqs'[i].rec \notin fin ]_vars

\* A Request has run for a pointer whose earlier record had been finalized, and it
\* has a record of its own.
C10_Witness ==
  \E i \in 1..Len(reqs) :
    /\ reqs[i].rec # 0
    /\ reqs[i].fins > 0
    /\ reqs[i].rec \notin fin

\* The records of pointer ptr that a worker has finalized.
FinalizedRecs(ptr) == {r \in fin : recs[r].blockPtr = ptr}

\* Call i is the first Request for its pointer to run since the last FinalizeRequest
\* for that pointer.
FirstSinceFinalize(i) ==
  ~ \E j \in 1..Len(reqs) :
      /\ reqs[j].rec # 0
      /\ reqs[j].ptr = reqs[i].ptr
      /\ reqs[j].fins = Finalized(reqs[i].ptr)

\* Call i creates a record in this step: one more record, with the next insertion
\* sequence number, pushed on the heap, with i as its requester.
CreatesRecord(i) ==
  /\ Len(recs') = Len(recs) + 1
  /\ reqs'[i].rec = Len(recs')
  /\ recs'[Len(recs')].insertionOrder = insertionCount
  /\ \A r \in 1..Len(recs) : recs[r].insertionOrder < insertionCount
  /\ \E k \in 1..Len(heap') : heap'[k] = Len(recs')

\* Call i ends on a record that is not finalized, not yet delivered, and inserted
\* after every finalized record of its pointer.
OnLaterRecord(i) ==
  /\ reqs'[i].rec \notin fin \cup done
  /\ \A r \in FinalizedRecs(reqs[i].ptr) :
       recs[r].insertionOrder < recs'[reqs'[i].rec].insertionOrder

\* C11 as stated: after FinalizeRequest(ptr), every later Request(ptr) creates a new
\* record with a new insertion sequence number and pushes it on the heap; its
\* requester is never added to the finalized record and is served by a separate,
\* later fetch.
C11_EveryLaterRequestCreates ==
  [][ \A i \in 1..Len(reqs) :
        Runs(i) /\ Finalized(reqs[i].ptr) > 0 => CreatesRecord(i) /\ OnLaterRecord(i) ]_vars

\* C11 amended: after FinalizeRequest(ptr), the first later Request(ptr) creates a
\* new record with a new insertion sequence number and pushes it on the heap; every
\* later Request(ptr) ends on a record inserted after the finalized one, never on
\* the finalized record, and is served by a separate, later fetch.
C11_FirstLaterRequestCreates ==
  [][ \A i \in 1..Len(reqs) :
        Runs(i) /\ Finalized(reqs[i].ptr) > 0 =>
          /\ OnLaterRecord(i)
          /\ FirstSinceFinalize(i) => CreatesRecord(i) ]_vars

\* A Request made after FinalizeRequest for its pointer has been served by the
\* fetch of a later record.
C11_Witness ==
  \E i \in 1..Len(reqs) :
    /\ reqs[i].fins > 0
    /\ reqs[i].rec \in done
    /\ \E r \in FinalizedRecs(reqs[i].ptr) : r < reqs[i].rec
    /\ reqs[i].got = 1

\* Every Request call has at most one result, which comes from the one worker its
\* record was handed to, and no record was handed out twice.
AtMostOnce ==
  /\ \A i \in 1..Len(reqs) : reqs[i].got <= 1
  /\ \A k, l \in 1..Len(assigned) : assigned[k] = assigned[l] => k = l
  /\ \A i \in 1..Len(reqs) : reqs[i].got = 1 => reqs[i].rec \in Assigned \cap done

\* The i-th Request call has been made, and has its result.
Made(i) == i <= Len(reqs)
Served(i) == i <= Len(reqs) /\ reqs[i].got = 1

C13_RequestNeverWaitsForWorker ==
  /\ \A i \in Pending : ENABLED Request(i)
  /\ \A ch \in dHold : wch[ch] = 0 /\ wpc[ch] = "waiting" /\ ENABLED NotifyWorkerPop(ch)

\* No worker has ever called WorkOnRequest, MaxRequests Request calls have returned,
\* and their records are queued with a dispatcher goroutine waiting for each.
C13_Witness ==
  /\ \A w \in Workers : wpc[w] = "idle"
  /\ workerQueue = <<>> /\ assigned = <<>>
  /\ Len(reqs) = MaxRequests
  /\ Pending = {}
  /\ Len(heap) >= 2
  /\ dWait = Len(heap)

\* ----------------------------------------------------- log register: properties
\* Session s has a queue registered in the forwarder.
HasRegistered(s) == lqueue[s] # 0 /\ lqueue[s] \in forwarder

\* The queues of session s that forwarder f holds, lq being the queues made.
QueuesOf(f, lq, s) == {q \in f : lq[q].ui = s}

\* This step is a RegisterLogger call of session s.
Registers(s) == lcalls' = lcalls + 1 /\ lret'.op = "RegisterLogger" /\ lret'.session = s

\* C14: a session has at most one registered queue in the forwarder at any time;
\* RegisterLogger while a queue is registered returns 'logger already registered'
\* and leaves the queue and the forwarder unchanged; and when no queue is registered
\* (initially, or after an explicit UnregisterLogger) RegisterLogger succeeds and
\* installs a new queue, which replaces the old one.
C14_OneQueueReplacedAfterUnregister ==
  [][ \A s \in Sessions :
        /\ Cardinality(QueuesOf(forwarder, logQueues, s)) <= 1
        /\ Registers(s) /\ HasRegistered(s) =>
             /\ lret'.err = ErrAlreadyRegistered
             /\ lqueue' = lqueue /\ forwarder' = forwarder
        /\ Registers(s) /\ ~HasRegistered(s) =>
             /\ lret'.err = ""
             /\ lqueue'[s] \notin 1..Len(logQueues)
             /\ QueuesOf(forwarder', logQueues', s) = {lqueue'[s]} ]_vars

\* The records in the heap.
InHeap == {heap[k] : k \in 1..Len(heap)}

\* C17: whenever brq.mtx is free, the map and the heap are consistent: every record
\* in the heap is the record the map holds for its pointer, no pointer has more than
\* one record in the heap, and every record of the map that is not in the heap has
\* been popped by the dispatcher for a worker that has not yet called
\* FinalizeRequest.
C17_MapAndHeapConsistent ==
  /\ \A r \in InHeap :
       recs[r].blockPtr \in DOMAIN ptrs /\ ptrs[recs[r].blockPtr] = r
  /\ \A k, l \in 1..Len(heap) :
       recs[heap[k]].blockPtr = recs[heap[l]].blockPtr => k = l
  /\ \A p \in DOMAIN ptrs :
       ptrs[p] \notin InHeap => ptrs[p] \in Assigned \ fin

\* The map holds two queued records and one that a worker has claimed and not yet
\* finalized.
C17_Witness ==
  /\ Len(heap) = 2
  /\ \E p \in DOMAIN ptrs :
       /\ ptrs[p] \notin InHeap
       /\ \E w \in Workers : wpc[w] = "claimed" /\ wrec[w] = ptrs[p]

\* C19: the dispatcher never pops from an empty heap: under every interleaving of
\* Request, WorkOnRequest and FinalizeRequest calls, the dispatcher goroutines that
\* have been started and have not yet popped are as many as the records in the heap,
\* so that each of them, once it has a worker's channel and brq.mtx, finds a record.
C19_DispatchersMatchHeap ==
  /\ dWait + Cardinality(dHold) = Len(heap)
  /\ ~panicked

\* Two records have been popped, the last of them by the last dispatcher from a heap
\* of one record, after a Request that joined a record and started no dispatcher.
C19_Witness ==
  /\ Len(assigned) = 2
  /\ Len(reqs) = 3 /\ Pending = {}
  /\ Len(recs) = 2
  /\ heap = <<>>
  /\ dWait = 0 /\ dHold = {}
====
